---- MODULE Spec2Model ----
(***************************************************************************)
(* bads.py: a command-line adapter between the pybads optimizer and an     *)
(* evaluator that answers over stdin/stdout.                                *)
(*                                                                         *)
(* Python objects are records [k, n, s, items]: k the type, n a numeric    *)
(* payload, s a string payload, items the children.  JSON text is a        *)
(* sequence of lexical tokens [t, s, n].                                   *)
(***************************************************************************)
EXTENDS Integers, Sequences, FiniteSets, TLC

\* ------------------------------------------------------------------ bounds
MaxEvals == 2     \* objective evaluations the optimizer may request in a run
MaxLine  == 3     \* characters in one stdin reply line
MaxLen   == 2     \* elements in a generated sequence
MaxDepth == 1     \* nesting levels wrapped around a generated sequence

\* ----------------------------------------------------------- Python values
V(k, n, s, items) == [k |-> k, n |-> n, s |-> s, items |-> items]

PyNone        == V("None", 0, "", <<>>)
PyInt(n)      == V("int", n, "", <<>>)
PyFloat(n)    == V("float", n, "", <<>>)
PyNaN         == V("float", 0, "nan", <<>>)
PyStr(s)      == V("str", 0, s, <<>>)
PyList(items) == V("list", 0, "", items)
PyObject      == V("object", 0, "", <<>>)
\* a mapping is a sequence of (key, value) items in insertion order
Item(key, v)  == V("item", 0, key, <<v>>)
PyDict(items) == V("dict", 0, "", items)
\* numpy values: scalars carry their dtype in k, arrays hold numpy scalars
\* (or rows, themselves arrays)
NpScalar(dtype, n) == V(dtype, n, "", <<>>)
NdArray(items)     == V("ndarray", 0, "", items)

NpIntTypes   == {"np.int64", "np.int32"}
NpFloatTypes == {"np.float64", "np.float32"}

\* ------------------------------------------------------------- dict helpers
Keys(d) == {d.items[i].s : i \in 1..Len(d.items)}

HasKey(d, key) == key \in Keys(d)

GetItem(d, key) == d.items[CHOOSE i \in 1..Len(d.items) : d.items[i].s = key].items[1]

DelItem(d, key) == PyDict(SelectSeq(d.items, LAMBDA it : it.s # key))

\* d[key] = v: replaces the value in place, or appends a new item
SetItem(d, key, v) ==
    IF HasKey(d, key)
    THEN PyDict([i \in 1..Len(d.items) |->
                    IF d.items[i].s = key THEN Item(key, v) ELSE d.items[i]])
    ELSE PyDict(Append(d.items, Item(key, v)))

\* ------------------------------------------------------------- JSON tokens
Tok(t, s, n) == [t |-> t, s |-> s, n |-> n]
P(s)         == Tok("p", s, 0)          \* punctuation: { } [ ] , :
StrTok(s)    == Tok("str", s, 0)        \* a double-quoted string
\* int.__repr__
IntTok(n) == Tok("int", "", n)

\* a float written without its fraction
FloatTokAsInt(v) == Tok("int", "", v.n)

\* float.__repr__: digits, or NaN
FloatTok(v) == Tok("float", IF v.s = "nan" THEN "NaN" ELSE "", v.n)
BadTok(s)    == Tok("bad", s, 0)        \* text that is no JSON literal

\* ----------------------------------------------------------- NumpyEncoder
\* isinstance(o, int) / isinstance(o, float) as json.encoder tests them:
\* numpy.float64 subclasses Python's float, no other numpy scalar subclasses
\* int or float.
IsPyInt(o)   == o.k = "int"
IsPyFloat(o) == o.k \in {"float", "np.float64"}

\* ndarray.tolist(): rows become lists, numeric numpy scalars become Python
\* numbers whatever their width; elements of an object array stay as they are
RECURSIVE ToList(_)
ToList(a) ==
    PyList([i \in 1..Len(a.items) |->
        LET e == a.items[i] IN
        IF e.k = "ndarray" THEN ToList(e)
        ELSE IF e.k \in NpIntTypes THEN PyInt(e.n)
        ELSE IF e.k \in NpFloatTypes THEN V("float", e.n, e.s, <<>>)
        ELSE e])

Returned(v) == [raised |-> FALSE, val |-> v]
Raised      == [raised |-> TRUE, val |-> PyNone]

\* a default that converts every numpy scalar type
NumpyDefaultAllScalars(obj) ==
    IF obj.k = "ndarray" THEN Returned(ToList(obj))
    ELSE IF obj.k \in NpIntTypes THEN Returned(PyInt(obj.n))
    ELSE IF obj.k \in NpFloatTypes THEN Returned(V("float", obj.n, obj.s, <<>>))
    ELSE Raised

\* NumpyEncoder.default; JSONEncoder.default raises TypeError
NumpyDefault(obj) ==
    IF obj.k = "ndarray" THEN Returned(ToList(obj))
    ELSE IF obj.k = "np.int64" THEN Returned(PyInt(obj.n))
    ELSE IF obj.k = "np.float64" THEN Returned(V("float", obj.n, obj.s, <<>>))
    ELSE Raised

\* The outcome of an encoding: ok is FALSE when TypeError was raised, toks is
\* the text, dflt records whether default() was called.
EncOk(toks, dflt) == [ok |-> TRUE, toks |-> toks, dflt |-> dflt]
EncFail           == [ok |-> FALSE, toks |-> <<>>, dflt |-> TRUE]

\* two encodings joined by a separator (none before the first element)
EncJoin(a, sep, b) ==
    IF ~a.ok \/ ~b.ok THEN EncFail
    ELSE EncOk(a.toks \o sep \o b.toks, a.dflt \/ b.dflt)

\* json.dumps(o, cls=NumpyEncoder): JSONEncoder's dispatch on the type of o,
\* default() for every other type, and the value default() returns encoded
\* in turn
RECURSIVE Encode(_), EncodeSeq(_, _)
Encode(o) ==
    IF o.k = "str" THEN EncOk(<<StrTok(o.s)>>, FALSE)
    ELSE IF IsPyInt(o) THEN EncOk(<<IntTok(o.n)>>, FALSE)
    ELSE IF IsPyFloat(o) THEN EncOk(<<FloatTok(o)>>, FALSE)
    ELSE IF o.k = "list"
        THEN EncJoin(EncJoin(EncOk(<<P("[")>>, FALSE), <<>>, EncodeSeq(o.items, 1)),
                     <<>>, EncOk(<<P("]")>>, FALSE))
    ELSE IF o.k = "dict"
        THEN EncJoin(EncJoin(EncOk(<<P("{")>>, FALSE), <<>>, EncodeSeq(o.items, 1)),
                     <<>>, EncOk(<<P("}")>>, FALSE))
    ELSE IF o.k = "item"
        THEN EncJoin(EncOk(<<StrTok(o.s), P(":")>>, FALSE), <<>>, Encode(o.items[1]))
    ELSE LET d == NumpyDefault(o) IN
         IF d.raised THEN EncFail
         ELSE LET r == Encode(d.val) IN
              IF r.ok THEN EncOk(r.toks, TRUE) ELSE EncFail

EncodeSeq(items, i) ==
    IF i > Len(items) THEN EncOk(<<>>, FALSE)
    ELSE IF i = Len(items) THEN Encode(items[i])
    ELSE EncJoin(Encode(items[i]), <<P(",")>>, EncodeSeq(items, i + 1))

\* --------------------------------------------------------------- json.loads
ParseOk(v, next) == [ok |-> TRUE, val |-> v, next |-> next]
ParseFail        == [ok |-> FALSE, val |-> PyNone, next |-> 0]

IsP(toks, i, s) == i <= Len(toks) /\ toks[i] = P(s)

\* the JSON decoder's scanner on toks from position i: one value, and the
\* position after it
RECURSIVE ParseValue(_, _), ParseArray(_, _, _), ParseObject(_, _, _)
ParseValue(toks, i) ==
    IF i > Len(toks) THEN ParseFail
    ELSE LET tk == toks[i] IN
         IF tk.t = "str" THEN ParseOk(PyStr(tk.s), i + 1)
         ELSE IF tk.t = "int" THEN ParseOk(PyInt(tk.n), i + 1)
         ELSE IF tk.t = "float"
             THEN ParseOk(V("float", tk.n, IF tk.s = "NaN" THEN "nan" ELSE "", <<>>), i + 1)
         ELSE IF tk = P("[")
             THEN IF IsP(toks, i + 1, "]") THEN ParseOk(PyList(<<>>), i + 2)
                  ELSE ParseArray(toks, i + 1, <<>>)
         ELSE IF tk = P("{")
             THEN IF IsP(toks, i + 1, "}") THEN ParseOk(PyDict(<<>>), i + 2)
                  ELSE ParseObject(toks, i + 1, PyDict(<<>>))
         ELSE ParseFail

\* the elements of an array from position i, acc the elements read so far
ParseArray(toks, i, acc) ==
    LET e == ParseValue(toks, i) IN
    IF ~e.ok THEN ParseFail
    ELSE IF IsP(toks, e.next, ",") THEN ParseArray(toks, e.next + 1, Append(acc, e.val))
    ELSE IF IsP(toks, e.next, "]") THEN ParseOk(PyList(Append(acc, e.val)), e.next + 1)
    ELSE ParseFail

\* the members of an object from position i; a repeated key keeps the last value
ParseObject(toks, i, acc) ==
    IF ~(i + 1 <= Len(toks) /\ toks[i].t = "str" /\ toks[i + 1] = P(":")) THEN ParseFail
    ELSE LET e == ParseValue(toks, i + 2) IN
         IF ~e.ok THEN ParseFail
         ELSE IF IsP(toks, e.next, ",")
             THEN ParseObject(toks, e.next + 1, SetItem(acc, toks[i].s, e.val))
         ELSE IF IsP(toks, e.next, "}")
             THEN ParseOk(SetItem(acc, toks[i].s, e.val), e.next + 1)
         ELSE ParseFail

\* json.loads(text): one value and nothing after it, else JSONDecodeError
Loads(toks) ==
    LET r == ParseValue(toks, 1) IN
    IF r.ok /\ r.next = Len(toks) + 1 THEN Returned(r.val) ELSE Raised

\* ------------------------------------------------------------ str(), repr()
\* Python's repr of a value, as print() and str() render it: keys in single
\* quotes, arrays as array([...]), any other object by its type's own repr
RECURSIVE Repr(_), ReprSeq(_, _)
Repr(o) ==
    IF o.k = "str" THEN <<Tok("pystr", o.s, 0)>>
    ELSE IF o.k = "int" THEN <<IntTok(o.n)>>
    ELSE IF o.k = "float" THEN <<Tok("float", o.s, o.n)>>
    ELSE IF o.k = "list" THEN <<P("[")>> \o ReprSeq(o.items, 1) \o <<P("]")>>
    ELSE IF o.k = "dict" THEN <<P("{")>> \o ReprSeq(o.items, 1) \o <<P("}")>>
    ELSE IF o.k = "item" THEN <<Tok("pystr", o.s, 0), P(":")>> \o Repr(o.items[1])
    ELSE IF o.k = "ndarray" THEN <<P("array(")>> \o Repr(ToList(o)) \o <<P(")")>>
    ELSE <<Tok("pyrepr", o.k, o.n)>>

ReprSeq(items, i) ==
    IF i > Len(items) THEN <<>>
    ELSE IF i = Len(items) THEN Repr(items[i])
    ELSE Repr(items[i]) \o <<P(",")>> \o ReprSeq(items, i + 1)

\* ------------------------------------------------------------------ jsonify
\* the names bound at module level when jsonify runs: the four imports and
\* the module's own definitions
ModuleGlobals ==
    {"BADS", "np", "json", "sys", "NumpyEncoder", "jsonify", "target",
     "conf", "bads", "result"}

JsonText(toks)  == [exc |-> "none", kind |-> "json", text |-> toks, logged |-> 0]
StrText(toks)   == [exc |-> "none", kind |-> "str", text |-> toks, logged |-> 1]
JsonRaise(name) == [exc |-> name, kind |-> "none", text |-> <<>>, logged |-> 0]

\* jsonify(obj): the JSON text; when the encoder raises, the except branch
\* evaluates logging.exception first, and the name logging raises NameError
\* unless it is bound
Jsonify(obj) ==
    LET e == Encode(obj) IN
    IF e.ok THEN JsonText(e.toks)
    ELSE IF "logging" \in ModuleGlobals THEN StrText(Repr(obj))
    ELSE JsonRaise("NameError")

\* ------------------------------------------------------------------ float()
Alphabet == {"1", ".", "-", "e", "a", " "}

Lines == UNION {[1..n -> Alphabet] : n \in 0..MaxLine}

RECURSIVE Strip(_)
Strip(line) ==
    IF line = <<>> THEN line
    ELSE IF Head(line) = " " THEN Strip(Tail(line))
    ELSE IF line[Len(line)] = " " THEN Strip(SubSeq(line, 1, Len(line) - 1))
    ELSE line

\* one step of the scanner of a decimal float literal:
\* [sign] (digits [. [digits]] | . digits) [e [sign] digits]
FloatStep(st, c) ==
    IF st = "start" THEN
        (IF c = "1" THEN "int" ELSE IF c = "-" THEN "sign" ELSE IF c = "." THEN "dot" ELSE "bad")
    ELSE IF st = "sign" THEN
        (IF c = "1" THEN "int" ELSE IF c = "." THEN "dot" ELSE "bad")
    ELSE IF st = "int" THEN
        (IF c = "1" THEN "int" ELSE IF c = "." THEN "frac" ELSE IF c = "e" THEN "e" ELSE "bad")
    ELSE IF st = "dot" THEN
        (IF c = "1" THEN "frac" ELSE "bad")
    ELSE IF st = "frac" THEN
        (IF c = "1" THEN "frac" ELSE IF c = "e" THEN "e" ELSE "bad")
    ELSE IF st = "e" THEN
        (IF c = "1" THEN "exp" ELSE IF c = "-" THEN "esign" ELSE "bad")
    ELSE IF st \in {"esign", "exp"} THEN
        (IF c = "1" THEN "exp" ELSE "bad")
    ELSE "bad"

RECURSIVE FloatScan(_, _)
FloatScan(st, line) ==
    IF line = <<>> THEN st ELSE FloatScan(FloatStep(st, Head(line)), Tail(line))

\* float(line) returns (TRUE) or raises ValueError (FALSE)
FloatParses(line) == FloatScan("start", Strip(line)) \in {"int", "frac", "exp"}

\* ------------------------------------------------------------- environment
RequiredKeys ==
    <<"x0", "lower_bounds", "upper_bounds", "plausible_lower_bounds",
      "plausible_upper_bounds">>

\* a configuration of dimension dim holding the keys in present
\* (a float's payload n stands for n/2)
ConfigValue(present, dim) ==
    LET val(key) ==
            IF key = "x0" THEN PyInt(0)
            ELSE IF key = "lower_bounds" THEN PyInt(-1)
            ELSE IF key = "upper_bounds" THEN PyInt(1)
            ELSE IF key = "plausible_lower_bounds" THEN PyFloat(-1)
            ELSE PyFloat(1)
        item(i) == Item(RequiredKeys[i], PyList([j \in 1..dim |-> val(RequiredKeys[i])]))
    IN PyDict(SelectSeq([i \in 1..Len(RequiredKeys) |-> item(i)],
                        LAMBDA it : it.s \in present))

AllKeys == {RequiredKeys[i] : i \in 1..Len(RequiredKeys)}

\* the command lines tried: sys.argv[1:], each argument a JSON text
ArgvSet ==
    {<<Encode(ConfigValue(present, 1)).toks>> : present \in SUBSET AllKeys}
    \cup {<<Encode(ConfigValue(AllKeys, 2)).toks>>,
          <<Encode(SetItem(ConfigValue(AllKeys, 1), "extra", PyInt(1))).toks>>,
          <<<<BadTok("not-json")>>>>,
          <<<<P("{"), StrTok("x0"), P(":")>>>>,
          <<Encode(ConfigValue(AllKeys, 1)).toks \o <<P("}")>>>>,
          <<Encode(PyList(<<PyInt(0)>>)).toks>>,
          <<<<IntTok(1)>>>>,
          <<<<>>>>,
          <<>>}

\* the points the optimizer may ask about: float64 arrays of the dimension of x0
PointVals == {0, 1}

Points(dim) ==
    {NdArray([i \in 1..dim |-> NpScalar("np.float64", f[i])]) : f \in [1..dim -> PointVals]}

\* values the optimizer may put in its result, one of each shape the encoder
\* distinguishes
ResultVals ==
    {PyInt(1), PyFloat(1), PyNaN, PyStr("ok"),
     PyList(<<PyInt(1), PyList(<<PyFloat(1)>>)>>),
     NdArray(<<NpScalar("np.float64", 1)>>),
     NdArray(<<NdArray(<<NpScalar("np.int32", 1)>>)>>),
     NpScalar("np.int64", 1), NpScalar("np.float64", 1),
     NpScalar("np.int32", 1), NpScalar("np.float32", 1),
     PyList(<<NpScalar("np.float32", 1)>>),
     PyObject}

\* result mappings: x always, fun and fval present or not
ResultsOver(vals) ==
    {PyDict(SelectSeq(<<Item("fun", NpScalar("np.float64", 1)), Item("x", v),
                        Item("fval", NpScalar("np.float64", 1))>>,
                      LAMBDA it : it.s \in present \cup {"x"}))
        : v \in vals, present \in SUBSET {"fun", "fval"}}

Results == ResultsOver(ResultVals)

\* ------------------------------------------------------------------- state
VARIABLES
    pc,        \* the statement the process is at
    argv,      \* sys.argv[1:]
    conf,      \* line 28
    bads,      \* line 29
    result,    \* line 30, changed by line 31
    x,         \* the argument of the running call of target
    out,       \* the lines printed on stdout
    nread,     \* the lines consumed from stdin
    logged,    \* the records written by logging.exception
    exc,       \* the uncaught exception, "none" while there is none
    returned,  \* the mapping bads.optimize() returned, as returned
    reply,     \* the line float() is given and cannot convert, NoReply otherwise
    exitCode   \* the exit status, -1 while the process runs

vars ==
    <<pc, argv, conf, bads, result, x, out, nread, logged, exc, returned, reply, exitCode>>

NoReply == <<"none">>

Line(tag, text) == [tag |-> tag, text |-> text]

CountTag(tag) == Cardinality({i \in 1..Len(out) : out[i].tag = tag})

Init ==
    /\ pc = "load"
    /\ argv \in ArgvSet
    /\ conf = PyNone
    /\ bads = PyNone
    /\ result = PyNone
    /\ x = PyNone
    /\ out = <<>>
    /\ nread = 0
    /\ logged = 0
    /\ exc = "none"
    /\ returned = PyNone
    /\ reply = NoReply
    /\ exitCode = -1

\* an uncaught exception: the traceback goes to stderr, exit status 1
Crash(name) ==
    /\ pc' = "exit"
    /\ exc' = name
    /\ exitCode' = 1

\* line 28: conf = json.loads(sys.argv[1])
LoadConf ==
    /\ pc = "load"
    /\ IF Len(argv) = 0 THEN Crash("IndexError") /\ UNCHANGED conf
       ELSE LET r == Loads(argv[1]) IN
            IF r.raised THEN Crash("JSONDecodeError") /\ UNCHANGED conf
            ELSE /\ conf' = r.val
                 /\ pc' = "construct"
                 /\ UNCHANGED <<exc, exitCode>>
    /\ UNCHANGED <<argv, bads, result, x, out, nread, logged, returned, reply>>

\* the five subscripts of line 29, evaluated before BADS is called
SubscriptError ==
    IF conf.k # "dict" THEN "TypeError"
    ELSE IF \E i \in 1..Len(RequiredKeys) : ~HasKey(conf, RequiredKeys[i]) THEN "KeyError"
    ELSE "none"

\* a driver that reads the keys with a default
ConstructDefaultsMissing ==
    /\ pc = "construct"
    /\ IF conf.k # "dict" THEN Crash("TypeError") /\ UNCHANGED bads
       ELSE /\ bads' = V("BADS", 0, "", [i \in 1..Len(RequiredKeys) |->
                           IF HasKey(conf, RequiredKeys[i])
                           THEN GetItem(conf, RequiredKeys[i]) ELSE PyList(<<>>)])
            /\ pc' = "optimize"
            /\ UNCHANGED <<exc, exitCode>>
    /\ UNCHANGED <<argv, conf, result, x, out, nread, logged, returned, reply>>

\* line 29: bads = BADS(target, conf["x0"], ...), the constructor returning
Construct ==
    /\ pc = "construct"
    /\ IF SubscriptError # "none" THEN Crash(SubscriptError) /\ UNCHANGED bads
       ELSE /\ bads' = V("BADS", 0, "", [i \in 1..Len(RequiredKeys) |-> GetItem(conf, RequiredKeys[i])])
            /\ pc' = "optimize"
            /\ UNCHANGED <<exc, exitCode>>
    /\ UNCHANGED <<argv, conf, result, x, out, nread, logged, returned, reply>>

\* line 29: the constructor raising
ConstructRaises ==
    /\ pc = "construct"
    /\ SubscriptError = "none"
    /\ Crash("OptimizerError")
    /\ UNCHANGED <<argv, conf, bads, result, x, out, nread, logged, returned, reply>>

Dim == Len(bads.items[1].items)

\* line 30, inside bads.optimize(): the library calls target(x)
OptimizerCallsTarget ==
    /\ pc = "optimize"
    /\ CountTag("REQUEST_EVALUATION") < MaxEvals
    /\ \E p \in Points(Dim) : x' = p
    /\ pc' = "target_print"
    /\ UNCHANGED <<argv, conf, bads, result, out, nread, logged, exc, returned, reply, exitCode>>

\* a callback that prints its request twice
TargetPrintTwice ==
    /\ pc = "target_print"
    /\ out' = out \o <<Line("REQUEST_EVALUATION", Repr(ToList(x))),
                       Line("REQUEST_EVALUATION", Repr(ToList(x)))>>
    /\ pc' = "target_input"
    /\ UNCHANGED <<argv, conf, bads, result, x, nread, logged, exc, returned, reply, exitCode>>

\* line 25: print("REQUEST_EVALUATION", x.tolist())
TargetPrint ==
    /\ pc = "target_print"
    /\ out' = Append(out, Line("REQUEST_EVALUATION", Repr(ToList(x))))
    /\ pc' = "target_input"
    /\ UNCHANGED <<argv, conf, bads, result, x, nread, logged, exc, returned, reply, exitCode>>

\* a callback that asks again when the reply is no number
TargetInputRetries ==
    /\ pc = "target_input"
    /\ nread' = nread + 1
    /\ \E line \in Lines :
          IF FloatParses(line)
          THEN pc' = "optimize" /\ reply' = NoReply /\ x' = PyNone
          ELSE pc' = "target_print" /\ reply' = line /\ x' = x
    /\ UNCHANGED <<argv, conf, bads, result, out, logged, exc, returned, exitCode>>

\* line 26: return float(input()), a line read; ValueError passes through
\* bads.optimize() to the top level
TargetInput ==
    /\ pc = "target_input"
    /\ nread' = nread + 1
    /\ \E line \in Lines :
          IF FloatParses(line)
          THEN pc' = "optimize" /\ x' = PyNone /\ UNCHANGED <<exc, exitCode, reply>>
          ELSE Crash("ValueError") /\ reply' = line /\ x' = x
    /\ UNCHANGED <<argv, conf, bads, result, out, logged, returned>>

\* line 26: input() at end of file raises EOFError, no line read
TargetInputEOF ==
    /\ pc = "target_input"
    /\ Crash("EOFError")
    /\ UNCHANGED <<argv, conf, bads, result, x, out, nread, logged, returned, reply>>

\* a driver that catches the optimizer's failure and ends normally
OptimizerRaisesCaught ==
    /\ pc = "optimize"
    /\ pc' = "exit"
    /\ exc' = "OptimizerError"
    /\ exitCode' = 0
    /\ UNCHANGED <<argv, conf, bads, result, x, out, nread, logged, returned, reply>>

\* line 30: bads.optimize() raising
OptimizerRaises ==
    /\ pc = "optimize"
    /\ Crash("OptimizerError")
    /\ UNCHANGED <<argv, conf, bads, result, x, out, nread, logged, returned, reply>>

\* line 30: result = bads.optimize(), the run returning
OptimizerReturns ==
    /\ pc = "optimize"
    /\ \E r \in Results : result' = r /\ returned' = r
    /\ pc' = "del_fun"
    /\ UNCHANGED <<argv, conf, bads, x, out, nread, logged, exc, reply, exitCode>>

\* a deletion that tolerates a missing key
DelFunGuarded ==
    /\ pc = "del_fun"
    /\ result' = DelItem(result, "fun")
    /\ pc' = "print_final"
    /\ UNCHANGED <<argv, conf, bads, x, out, nread, logged, exc, returned, reply, exitCode>>

\* a driver that keeps the key
DelFunSkipped ==
    /\ pc = "del_fun"
    /\ pc' = "print_final"
    /\ UNCHANGED <<argv, conf, bads, result, x, out, nread, logged, exc, returned, reply, exitCode>>

\* line 31: del result['fun']
DelFun ==
    /\ pc = "del_fun"
    /\ IF HasKey(result, "fun")
       THEN /\ result' = DelItem(result, "fun")
            /\ pc' = "print_final"
            /\ UNCHANGED <<exc, exitCode>>
       ELSE Crash("KeyError") /\ UNCHANGED result
    /\ UNCHANGED <<argv, conf, bads, x, out, nread, logged, returned, reply>>

\* a driver that prints the result line twice
PrintFinalTwice ==
    /\ pc = "print_final"
    /\ LET j == Jsonify(result) IN
       IF j.exc # "none" THEN Crash(j.exc) /\ UNCHANGED <<out, logged>>
       ELSE /\ out' = out \o <<Line("FINAL_RESULT", j.text), Line("FINAL_RESULT", j.text)>>
            /\ logged' = logged + j.logged
            /\ pc' = "exit"
            /\ exitCode' = 0
            /\ UNCHANGED exc
    /\ UNCHANGED <<argv, conf, bads, result, x, nread, returned, reply>>

\* line 32: print("FINAL_RESULT", jsonify(result)), then the end of the script
PrintFinal ==
    /\ pc = "print_final"
    /\ LET j == Jsonify(result) IN
       IF j.exc # "none" THEN Crash(j.exc) /\ UNCHANGED <<out, logged>>
       ELSE /\ out' = Append(out, Line("FINAL_RESULT", j.text))
            /\ logged' = logged + j.logged
            /\ pc' = "exit"
            /\ exitCode' = 0
            /\ UNCHANGED exc
    /\ UNCHANGED <<argv, conf, bads, result, x, nread, returned, reply>>

Next ==
    \/ LoadConf
    \/ Construct
    \/ ConstructRaises
    \/ OptimizerCallsTarget
    \/ TargetPrint
    \/ TargetInput
    \/ TargetInputEOF
    \/ OptimizerRaises
    \/ OptimizerReturns
    \/ DelFun
    \/ PrintFinal

Spec == Init /\ [][Next]_vars

\* ------------------------------------------------------------------ claims
NReq   == CountTag("REQUEST_EVALUATION")
NFinal == CountTag("FINAL_RESULT")

LastTag == IF out = <<>> THEN "none" ELSE out[Len(out)].tag

\* C1: the REQUEST_EVALUATION lines printed are never fewer than the stdin
\* lines consumed and never more than one ahead; between two calls of target
\* and at a successful exit the two counts are equal, and inside a call the
\* request is printed before the reply is read.
C1_RequestReplyPairing ==
    /\ NReq - nread \in {0, 1}
    /\ pc = "target_print" => NReq = nread
    /\ pc = "target_input" => NReq = nread + 1 /\ LastTag = "REQUEST_EVALUATION"
    /\ pc \in {"optimize", "del_fun", "print_final"} => NReq = nread
    /\ exitCode = 0 => NReq = nread

C1_Witness == exitCode = 0 /\ NReq = MaxEvals /\ nread = MaxEvals

\* C3 (states): FINAL_RESULT is never printed twice, nothing follows it, it is
\* printed only once bads.optimize() has returned, a printed FINAL_RESULT
\* means exit status 0, and exit status 0 means it was printed.
C3_FinalInv ==
    /\ NFinal <= 1
    /\ NFinal = 1 => /\ LastTag = "FINAL_RESULT"
                     /\ returned # PyNone
                     /\ pc = "exit"
                     /\ exitCode = 0
    /\ exitCode = 0 => NFinal = 1 /\ pc = "exit"

Phase ==
    IF pc \in {"load", "construct"} THEN 0
    ELSE IF pc \in {"optimize", "target_print", "target_input"} THEN 1
    ELSE IF pc \in {"del_fun", "print_final"} THEN 2
    ELSE 3

\* C3 (steps): the driver only moves forward through not started, running,
\* finished, exit, and once FINAL_RESULT is printed the output stays as it is.
C3_Forward ==
    /\ Phase' >= Phase
    /\ NFinal = 1 => out' = out

\* C3: on every successful run FINAL_RESULT is printed exactly once, last,
\* after the optimizer's run has returned, the process exits with status 0,
\* and the driver never goes back to running.
C3_FinalResultOnceLast == []C3_FinalInv /\ [][C3_Forward]_vars

C3_Witness == exitCode = 0 /\ NFinal = 1 /\ NReq = MaxEvals

\* the keys at the top level of a Python repr of a mapping
ReprKeys(text) ==
    LET depth(i) == Cardinality({j \in 1..i : text[j] \in {P("{"), P("["), P("array(")}})
                    - Cardinality({j \in 1..i : text[j] \in {P("}"), P("]"), P(")")}})
    IN {text[i].s : i \in {j \in 1..Len(text) : text[j].t = "pystr" /\ depth(j) = 1
                                                  /\ IsP(text, j + 1, ":")}}

\* the keys of the object a FINAL_RESULT line encodes
FinalKeys(text) ==
    LET r == Loads(text) IN
    IF ~r.raised /\ r.val.k = "dict" THEN Keys(r.val) ELSE ReprKeys(text)

\* C4: the object in every FINAL_RESULT line has no fun key and has every
\* other key of the mapping the optimizer returned.
C4_FunAbsent ==
    \A i \in 1..Len(out) :
        out[i].tag = "FINAL_RESULT" =>
            /\ "fun" \notin FinalKeys(out[i].text)
            /\ FinalKeys(out[i].text) = Keys(returned) \ {"fun"}

C4_Witness ==
    /\ exitCode = 0
    /\ NFinal = 1
    /\ Keys(returned) = {"fun", "x", "fval"}
    /\ FinalKeys(out[Len(out)].text) = {"x", "fval"}

\* the argument is no JSON text, or is a JSON value without one of the five keys
ArgInvalid ==
    /\ Len(argv) >= 1
    /\ LET r == Loads(argv[1]) IN
       \/ r.raised
       \/ r.val.k # "dict"
       \/ \E i \in 1..Len(RequiredKeys) : ~HasKey(r.val, RequiredKeys[i])

\* C5: with an argument that is not valid JSON or lacks a required key the
\* process never gets past the construction of the optimizer: BADS is never
\* constructed, nothing is printed, no stdin line is read, and the process
\* ends with a non-zero status.
C5_BadArgumentFatal ==
    ArgInvalid =>
        /\ pc \in {"load", "construct", "exit"}
        /\ bads = PyNone
        /\ out = <<>>
        /\ nread = 0
        /\ exitCode # 0
        /\ pc = "exit" => exitCode = 1 /\ exc \in {"JSONDecodeError", "KeyError", "TypeError"}
        /\ pc = "construct" => ~Loads(argv[1]).raised

C5_Witness ==
    /\ ArgInvalid
    /\ pc = "exit"
    /\ exc = "KeyError"
    /\ Cardinality(Keys(conf)) = Len(RequiredKeys) - 1

C5_WitnessNotJson == ArgInvalid /\ pc = "exit" /\ exc = "JSONDecodeError"

\* C6: a reply that float() cannot convert ends the process with a non-zero
\* status right after the request it answers: the last line printed is that
\* REQUEST_EVALUATION, every request printed has had one reply read, no
\* FINAL_RESULT is printed.
C6_BadReplyFatal ==
    reply # NoReply =>
        /\ ~FloatParses(reply)
        /\ pc = "exit"
        /\ exitCode = 1
        /\ exc = "ValueError"
        /\ LastTag = "REQUEST_EVALUATION"
        /\ NReq = nread
        /\ NFinal = 0

C6_Witness == reply = <<"a">> /\ pc = "exit" /\ exitCode = 1 /\ NReq = MaxEvals

NonSerializationErrors ==
    {"IndexError", "JSONDecodeError", "TypeError", "KeyError", "OptimizerError",
     "ValueError", "EOFError"}

\* C7: a failure raised by the optimizer, in its constructor or in its run,
\* ends the process with a non-zero status and without a FINAL_RESULT line,
\* and so does every other failure that is not a serialization failure: no
\* run that met one exits with status 0.
C7_OptimizerFailureFatal ==
    /\ exc \in NonSerializationErrors => pc = "exit" /\ exitCode = 1 /\ NFinal = 0
    /\ exitCode = 0 => exc = "none"

C7_Witness == exc = "OptimizerError" /\ bads # PyNone /\ NReq = MaxEvals /\ exitCode = 1

C7_WitnessConstruct == exc = "OptimizerError" /\ bads = PyNone /\ exitCode = 1

\* C10: when bads.optimize() returns a mapping without a fun key the process
\* fails at the deletion: status non-zero, KeyError, no FINAL_RESULT, and the
\* replies of all requests printed were read.
C10_MissingFunFatal ==
    (returned # PyNone /\ ~HasKey(returned, "fun") /\ pc # "del_fun") =>
        /\ pc = "exit"
        /\ exitCode = 1
        /\ exc = "KeyError"
        /\ result = returned
        /\ NFinal = 0
        /\ NReq = nread

C10_Witness ==
    /\ returned # PyNone
    /\ ~HasKey(returned, "fun")
    /\ pc = "exit"
    /\ exc = "KeyError"
    /\ NReq = MaxEvals

\* C2: when the optimizer's run has returned a mapping with a fun key and a
\* value the encoder cannot convert, the process still ends with exactly one
\* FINAL_RESULT line, a logged exception and status 0.
C2_FallbackPrintsFinal ==
    (pc = "exit" /\ returned # PyNone /\ HasKey(returned, "fun")
        /\ ~Encode(DelItem(returned, "fun")).ok) =>
            /\ exitCode = 0
            /\ NFinal = 1
            /\ logged = 1

\* ------------------------------------------------- the serializer on its own
\* Generated result values: numbers of every type, flat sequences of them,
\* arrays of one dtype (flat, or of equal rows), and MaxDepth levels of lists
\* around each of these.
NpTypes == NpIntTypes \cup NpFloatTypes

Leaves ==
    {PyInt(1), PyFloat(1), PyNaN} \cup {NpScalar(t, 1) : t \in NpTypes}

SeqsOver(S, n) == UNION {[1..k -> S] : k \in 0..n}

FlatArrays == {NdArray([i \in 1..k |-> NpScalar(t, 1)]) : t \in NpTypes, k \in 0..MaxLen}

Arrays == FlatArrays \cup {NdArray([i \in 1..k |-> a]) : a \in FlatArrays, k \in 1..MaxLen}

RECURSIVE Gen(_)
Gen(d) ==
    IF d = 0
    THEN Leaves \cup Arrays \cup {PyList(q) : q \in SeqsOver(Leaves, MaxLen)}
    ELSE LET g == Gen(d - 1) IN
         g \cup {PyList(<<v>>) : v \in g} \cup {PyList(<<PyInt(1), v>>) : v \in g}
           \cup {PyList(<<NpScalar("np.int64", 1), v>>) : v \in g}

\* the state right after bads.optimize() has returned from a run that asked
\* for no evaluation, under the one-dimensional configuration
InitSer ==
    /\ pc = "del_fun"
    /\ argv = <<Encode(ConfigValue(AllKeys, 1)).toks>>
    /\ conf = Loads(argv[1]).val
    /\ bads = V("BADS", 0, "", [i \in 1..Len(RequiredKeys) |-> GetItem(conf, RequiredKeys[i])])
    /\ result \in ResultsOver(Gen(MaxDepth))
    /\ returned = result
    /\ x = PyNone
    /\ out = <<>>
    /\ nread = 0
    /\ logged = 0
    /\ exc = "none"
    /\ reply = NoReply
    /\ exitCode = -1

NextSer ==
    \/ DelFun
    \/ PrintFinal

SpecSer == InitSer /\ [][NextSer]_vars

RECURSIVE IsPlain(_), HasKind(_, _), PlainOf(_)
\* plain data: Python numbers, lists and mappings of plain data
IsPlain(v) ==
    IF v.k \in {"int", "float"} THEN TRUE
    ELSE IF v.k \in {"list", "dict", "item"}
        THEN \A i \in 1..Len(v.items) : IsPlain(v.items[i])
    ELSE FALSE

\* v holds, outside any array, a value whose type is in kinds
HasKind(v, kinds) ==
    IF v.k \in kinds THEN TRUE
    ELSE IF v.k \in {"list", "dict", "item"}
        THEN \E i \in 1..Len(v.items) : HasKind(v.items[i], kinds)
    ELSE FALSE

\* the plain counterpart of a value: lists for arrays, Python numbers for
\* numpy scalars
PlainOf(v) ==
    IF v.k \in NpIntTypes THEN PyInt(v.n)
    ELSE IF v.k \in NpFloatTypes THEN V("float", v.n, v.s, <<>>)
    ELSE IF v.k = "ndarray" THEN PyList([i \in 1..Len(v.items) |-> PlainOf(v.items[i])])
    ELSE [v EXCEPT !.items = [i \in 1..Len(v.items) |-> PlainOf(v.items[i])]]

Printed == pc = "exit" /\ NFinal = 1

FinalText == out[Len(out)].text

Attempted == pc = "exit" /\ HasKey(returned, "fun")

Expected == DelItem(returned, "fun")

\* C8 as stated: whatever numpy values the mapping holds, the FINAL_RESULT
\* line is printed and decodes to the plain counterpart of the mapping.
C8_AllNumpyTypesConverted ==
    Attempted => /\ Printed
                 /\ Loads(FinalText) = Returned(PlainOf(Expected))

UnconvertedTypes == {"np.int32", "np.float32"}

\* C8 amended: a mapping whose numpy values are arrays, numpy.int64 and
\* numpy.float64 scalars, at any depth, is printed as JSON that decodes to
\* its plain counterpart; a mapping that holds a numpy.int32 or numpy.float32
\* scalar outside an array is not converted: the encoder raises and no
\* FINAL_RESULT line with JSON in it is printed.
C8_Int64Float64AndArraysConverted ==
    Attempted =>
        IF HasKind(Expected, UnconvertedTypes)
        THEN ~Encode(Expected).ok /\ ~(Printed /\ ~Loads(FinalText).raised)
        ELSE Printed /\ Loads(FinalText) = Returned(PlainOf(Expected))

C8_Witness ==
    /\ Printed
    /\ HasKind(Expected, {"ndarray"})
    /\ HasKind(Expected, {"np.int64"})
    /\ GetItem(Expected, "x").k = "list"
    /\ Loads(FinalText) = Returned(PlainOf(Expected))

\* C9: a mapping of plain numbers and lists is printed as JSON that decodes
\* to the same mapping without fun, and neither default() nor the string
\* form is used.
C9_PlainRoundTrip ==
    (Attempted /\ IsPlain(Expected)) =>
        /\ Printed
        /\ Loads(FinalText) = Returned(Expected)
        /\ ~Encode(Expected).dflt
        /\ Jsonify(Expected).kind = "json"
        /\ logged = 0

C9_Witness ==
    /\ Printed
    /\ IsPlain(Expected)
    /\ Loads(FinalText) = Returned(Expected)
    /\ \E i \in 1..Len(Expected.items) :
          LET v == Expected.items[i].items[1] IN
          v.k = "list" /\ Len(v.items) = 2 /\ v.items[2].k = "list" /\ v.items[2].items # <<>>

====
